---- MODULE Spec2Model ----
(***************************************************************************)
(* Model of the healthy-cli health check core                              *)
(* (src/tools/healthy-cli/core/checker.py): the selection policy, the      *)
(* execution order resolver and the runner loop of HealthCheckRunner.      *)
(*                                                                         *)
(* A check is identified by its name (a number); name 0 is a name that is  *)
(* never registered.  The order resolver is explored on its own on every   *)
(* input list of up to MaxChecks checks (SpecOrder); the runner is         *)
(* explored on every registry of the two checks of RegNames (Spec).  A     *)
(* dependency list and the name lists of the configuration are read by the *)
(* code through membership tests only, so they are modelled as sets of     *)
(* names.  A check's run either returns a CheckResult or raises an         *)
(* Exception, the failures the runner's except clause is written for.      *)
(***************************************************************************)
EXTENDS Integers, Sequences, FiniteSets, TLC

VARIABLES
    registry,        \* HealthCheckRegistry._checks: registered names, insertion order
    optional,        \* HealthCheck.optional of each check
    dependencies,    \* HealthCheck.dependencies of each check
    config,          \* CheckConfig handed to the runner
    reporter,        \* TRUE iff HealthCheckRunner.reporter is not None
    pc,              \* position of the caller / of run_all_checks
    checks_to_run,   \* run_all_checks: the selected checks, registry order
    ordered_checks,  \* run_all_checks: result of _get_execution_order
    idx,             \* position of the for loop in ordered_checks
    overall_success, \* run_all_checks: overall_success
    results,         \* HealthCheckRunner.results, an insertion-ordered dict
    events,          \* calls received by the reporter, in order
    fallbacks,       \* resolver passes that took the "not ready" branch
    invoked,         \* names whose run() was invoked, in order
    completed,       \* executions that ended (returned or raised), in order
    returned,        \* <<b>> once run_all_checks has returned b, else <<>>
    check_of,        \* HealthCheckRegistry._checks: the check stored under each name
    categories,      \* HealthCheckRegistry._categories, an insertion-ordered dict
    register_log,    \* the register calls made so far, in order
    snapshot,        \* the mapping a caller got from get_results or get_all_checks, if any
    left_to_order,   \* _get_execution_order: the list `remaining` between passes
    observed,        \* what get_results() held at each complete_check delivery
    shadow,          \* outcome of an earlier run of the same checks, if recorded
    exit_code        \* <<n>> once the check command has exited with code n

vars == <<registry, optional, dependencies, config, reporter, pc,
          checks_to_run, ordered_checks, idx, overall_success, results,
          events, fallbacks, invoked, completed, returned,
          check_of, categories, register_log, snapshot,
          left_to_order, observed, shadow, exit_code>>

(***************************************************************************)
(* Bounds                                                                  *)
(***************************************************************************)
\* longest input list given to the order resolver on its own
MaxChecks == 3
\* most dependencies one check declares
MaxDeps == 1
\* most register calls made on a registry explored on its own
MaxRegisters == 3

\* names of the checks given to the resolver; 0 names no check
Names == 1..MaxChecks
DepNames == 0..MaxChecks
\* names of the checks registered with the runner, in registration order
RegNames == {1, 2}
RegDepNames == {0} \cup RegNames
\* the dependency lists a check may declare over the names S
DepSets(S) == {d \in SUBSET S : Cardinality(d) <= MaxDeps}

(***************************************************************************)
(* Small helpers on sequences                                              *)
(***************************************************************************)
Range(s) == {s[i] : i \in 1..Len(s)}

Count(s, x) == Cardinality({i \in 1..Len(s) : s[i] = x})

Upto(n) == [i \in 1..n |-> i]

RECURSIVE FilterSeq(_, _)
FilterSeq(s, keep) ==
    IF s = <<>> THEN <<>>
    ELSE IF Head(s) \in keep THEN <<Head(s)>> \o FilterSeq(Tail(s), keep)
    ELSE FilterSeq(Tail(s), keep)

\* list.remove(x): drops the first element equal to x
RECURSIVE ListRemove(_, _)
ListRemove(s, x) ==
    IF s = <<>> THEN <<>>
    ELSE IF Head(s) = x THEN Tail(s)
    ELSE <<Head(s)>> \o ListRemove(Tail(s), x)

(***************************************************************************)
(* core/types.py                                                           *)
(***************************************************************************)
PENDING == "pending"
RUNNING == "running"
PASSED == "passed"
FAILED == "failed"
SKIPPED == "skipped"
WARNING == "warning"
CheckStatus == {PENDING, RUNNING, PASSED, FAILED, SKIPPED, WARNING}

NoDetails == "None"
CheckResult(status, message, details) ==
    [status |-> status, message |-> message, details |-> details]

NoResult == CheckResult("none", <<>>, NoDetails)

(***************************************************************************)
(* core/config.py: an Optional[List[str]] field                            *)
(***************************************************************************)
None == [present |-> FALSE, names |-> {}]
ListOf(S) == [present |-> TRUE, names |-> S]
\* Python truth value of an Optional[List[str]]
Truthy(l) == l.present /\ l.names # {}

CheckConfig(specific, include, skip, continue, verbose) ==
    [specific_checks |-> specific, include_optional |-> include,
     skip_optional |-> skip, continue_on_failure |-> continue,
     verbose |-> verbose]

(***************************************************************************)
(* HealthCheckRunner._should_run_check                                     *)
(***************************************************************************)
\* variant: skip_optional is tested before specific_checks
ShouldRunCheckSkipFirst(cfg, name, isOptional) ==
    IF isOptional /\ cfg.skip_optional THEN FALSE
    ELSE IF Truthy(cfg.specific_checks) THEN name \in cfg.specific_checks.names
    ELSE IF isOptional /\ Truthy(cfg.include_optional)
         THEN name \in cfg.include_optional.names
    ELSE ~isOptional

\* variant: optional checks run by default
ShouldRunCheckOptOut(cfg, name, isOptional) ==
    IF Truthy(cfg.specific_checks) THEN name \in cfg.specific_checks.names
    ELSE IF isOptional /\ cfg.skip_optional THEN FALSE
    ELSE IF isOptional /\ Truthy(cfg.include_optional)
         THEN name \in cfg.include_optional.names
    ELSE TRUE

\* variant: include_optional filters required checks too
ShouldRunCheckIncludeAll(cfg, name, isOptional) ==
    IF Truthy(cfg.specific_checks) THEN name \in cfg.specific_checks.names
    ELSE IF isOptional /\ cfg.skip_optional THEN FALSE
    ELSE IF Truthy(cfg.include_optional)
         THEN name \in cfg.include_optional.names
    ELSE ~isOptional

\* variant: a specific_checks that names no registered check is ignored
ShouldRunCheckUnknownIgnored(cfg, name, isOptional) ==
    IF Truthy(cfg.specific_checks)
       /\ cfg.specific_checks.names \cap Names # {}
    THEN name \in cfg.specific_checks.names
    ELSE IF isOptional /\ cfg.skip_optional THEN FALSE
    ELSE IF isOptional /\ Truthy(cfg.include_optional)
         THEN name \in cfg.include_optional.names
    ELSE ~isOptional

ShouldRunCheck(cfg, name, isOptional) ==
    IF Truthy(cfg.specific_checks) THEN name \in cfg.specific_checks.names
    ELSE IF isOptional /\ cfg.skip_optional THEN FALSE
    ELSE IF isOptional /\ Truthy(cfg.include_optional)
         THEN name \in cfg.include_optional.names
    ELSE ~isOptional

(***************************************************************************)
(* CheckConfig.should_run_check (core/config.py)                           *)
(***************************************************************************)
\* variant: an optional check that nothing excludes is run
ConfigShouldRunCheckOptOut(cfg, check_name, is_optional) ==
    IF Truthy(cfg.specific_checks)
    THEN check_name \in cfg.specific_checks.names
    ELSE IF is_optional
         THEN IF cfg.skip_optional THEN FALSE
              ELSE IF Truthy(cfg.include_optional)
                   THEN check_name \in cfg.include_optional.names
              ELSE TRUE
    ELSE TRUE

ConfigShouldRunCheck(cfg, check_name, is_optional) ==
    IF Truthy(cfg.specific_checks)
    THEN check_name \in cfg.specific_checks.names
    ELSE IF is_optional
         THEN IF cfg.skip_optional THEN FALSE
              ELSE IF Truthy(cfg.include_optional)
                   THEN check_name \in cfg.include_optional.names
              ELSE FALSE
    ELSE TRUE

(***************************************************************************)
(* HealthCheckRunner._get_execution_order                                  *)
(***************************************************************************)
\* variant: every dependency counts as met
UnmetDepsNone(deps, check, ordered) == {}

\* variant: a name that is no check counts as met
UnmetDepsKnown(deps, check, ordered) ==
    {dep \in deps[check] : dep # 0 /\ dep \notin Range(ordered)}

\* unmet_deps of one check against the names already in `ordered`
UnmetDeps(deps, check, ordered) ==
    {dep \in deps[check] : dep \notin Range(ordered)}

\* variant: the ready checks are collected last first
ReadyChecksReversed(deps, remaining, ordered) ==
    LET r == FilterSeq(remaining,
                       {c \in Range(remaining) :
                            UnmetDeps(deps, c, ordered) = {}})
    IN  [i \in 1..Len(r) |-> r[Len(r) + 1 - i]]

\* ready: the checks of `remaining` without unmet dependencies, in order
ReadyChecks(deps, remaining, ordered) ==
    FilterSeq(remaining,
              {c \in Range(remaining) : UnmetDeps(deps, c, ordered) = {}})

\* `for check in ready: remaining.remove(check)`, i is the iterator's index.
\* When aliased, `ready` IS the list `remaining` (line 142), so the iterator
\* walks the list that the body shrinks.
RECURSIVE RemoveLoop(_, _, _, _)
RemoveLoop(ready, remaining, aliased, i) ==
    LET iterated == IF aliased THEN remaining ELSE ready
    IN  IF i > Len(iterated) THEN remaining
        ELSE RemoveLoop(ready, ListRemove(remaining, iterated[i]), aliased, i + 1)

\* the while loop; st = [ordered, remaining, errors, fallbacks]
RECURSIVE OrderLoop(_, _, _)
OrderLoop(deps, hasReporter, st) ==
    IF st.remaining = <<>> THEN st
    ELSE
        LET ready == ReadyChecks(deps, st.remaining, st.ordered)
            stuck == ready = <<>>
            taken == IF stuck THEN st.remaining ELSE ready
        IN  OrderLoop(deps, hasReporter,
                [ordered   |-> st.ordered \o taken,
                 remaining |-> RemoveLoop(taken, st.remaining, stuck, 1),
                 errors    |-> IF stuck /\ hasReporter
                               THEN st.errors + 1 ELSE st.errors,
                 fallbacks |-> IF stuck THEN st.fallbacks + 1
                               ELSE st.fallbacks])

\* variant: without a reporter the checks are left in their input order
GetExecutionOrderObserved(deps, hasReporter, checks) ==
    IF hasReporter
    THEN OrderLoop(deps, hasReporter,
                   [ordered |-> <<>>, remaining |-> checks,
                    errors |-> 0, fallbacks |-> 0])
    ELSE [ordered |-> checks, remaining |-> <<>>, errors |-> 0, fallbacks |-> 0]

GetExecutionOrder(deps, hasReporter, checks) ==
    OrderLoop(deps, hasReporter,
              [ordered |-> <<>>, remaining |-> checks,
               errors |-> 0, fallbacks |-> 0])

(***************************************************************************)
(* HealthCheckRegistry.  A check object is [id, name]: two objects may     *)
(* carry the same name.  st = [registry, check_of, categories].            *)
(***************************************************************************)
Check(id, name) == [id |-> id, name |-> name]

EmptyRegistry == [registry |-> <<>>, check_of |-> <<>>, categories |-> <<>>]

\* variant: a name already registered keeps its first check
SetCheckKeepFirst(m, name, check) ==
    [n \in DOMAIN m \cup {name} |->
        IF n \in DOMAIN m THEN m[n] ELSE check]

\* self._checks[check.name] = check (line 44)
SetCheck(m, name, check) ==
    [n \in DOMAIN m \cup {name} |-> IF n = name THEN check ELSE m[n]]

HasCategory(cats, category) ==
    \E i \in 1..Len(cats) : cats[i].category = category

\* variant: the name is recorded only when the category is new
AddToNewCategoryOnly(cats, category, name) ==
    IF HasCategory(cats, category) THEN cats
    ELSE Append(cats, [category |-> category, names |-> <<name>>])

\* variant: a new category is placed before the categories already present
AddToCategoryFront(cats, category, name) ==
    IF HasCategory(cats, category)
    THEN [i \in 1..Len(cats) |->
            IF cats[i].category = category
            THEN [cats[i] EXCEPT !.names = Append(@, name)]
            ELSE cats[i]]
    ELSE <<[category |-> category, names |-> <<name>>]>> \o cats

\* lines 45-47: create the category's list if missing, append the name
AddToCategory(cats, category, name) ==
    LET withCat == IF HasCategory(cats, category) THEN cats
                   ELSE Append(cats, [category |-> category, names |-> <<>>])
    IN  [i \in 1..Len(withCat) |->
            IF withCat[i].category = category
            THEN [withCat[i] EXCEPT !.names = Append(@, name)]
            ELSE withCat[i]]

\* HealthCheckRegistry.register
RegisterIn(st, check, category) ==
    [registry   |-> IF check.name \in Range(st.registry) THEN st.registry
                    ELSE Append(st.registry, check.name),
     check_of   |-> SetCheck(st.check_of, check.name, check),
     categories |-> AddToCategory(st.categories, category, check.name)]

\* `for check in ...get_checks(): self.registry.register(check, category)`
RECURSIVE RegisterAll(_, _, _)
RegisterAll(st, names, category) ==
    IF names = <<>> THEN st
    ELSE RegisterAll(RegisterIn(st, Check(Head(names), Head(names)), category),
                     Tail(names), category)

RECURSIVE LogAll(_, _)
LogAll(names, category) ==
    IF names = <<>> THEN <<>>
    ELSE <<[check |-> Check(Head(names), Head(names)), category |-> category]>>
         \o LogAll(Tail(names), category)

\* HealthCheckRegistry.get_check: <<check>>, or <<>> for None
GetCheck(name) ==
    IF name \in DOMAIN check_of THEN <<check_of[name]>> ELSE <<>>

\* the names in a category's list, <<>> for an unknown category
CategoryNames(category) ==
    IF HasCategory(categories, category)
    THEN categories[CHOOSE i \in 1..Len(categories) :
                        categories[i].category = category].names
    ELSE <<>>

\* HealthCheckRegistry.get_checks_in_category (lines 53-57): the returned
\* list, or KeyError raised by self._checks[name] on a missing name
GetChecksInCategory(category) ==
    IF ~HasCategory(categories, category)
    THEN [raised |-> "", checks |-> <<>>]
    ELSE LET names == CategoryNames(category)
         IN  IF \E i \in 1..Len(names) : names[i] \notin DOMAIN check_of
             THEN [raised |-> "KeyError", checks |-> <<>>]
             ELSE [raised |-> "",
                   checks |-> [i \in 1..Len(names) |-> check_of[names[i]]]]

\* HealthCheckRegistry.get_categories: list(self._categories.keys())
GetCategories == [i \in 1..Len(categories) |-> categories[i].category]

\* the mapping a caller holds after get_results: its items, and whether it is
\* the runner's own dict object or a separate one
NoSnapshot == [taken |-> FALSE, shared |-> FALSE, items |-> <<>>]

\* variant: get_results returns self.results itself
ResultsShared(d) == [taken |-> TRUE, shared |-> TRUE, items |-> d]

\* self.results.copy() (line 208): a new dict with the same items
ResultsCopy(d) == [taken |-> TRUE, shared |-> FALSE, items |-> d]

\* no earlier run recorded
NoShadow ==
    [taken |-> FALSE, ordered |-> <<>>, invoked |-> <<>>, results |-> <<>>,
     returned |-> <<>>, outcomes |-> <<>>]

(***************************************************************************)
(* Reporter calls                                                          *)
(***************************************************************************)
Event(ev, name, n, result) ==
    [ev |-> ev, name |-> name, n |-> n, result |-> result]

ShowError == Event("show_error", 0, 0, NoResult)
ShowWarning == Event("show_warning", 0, 0, NoResult)
StartChecks(total) == Event("start_checks", 0, total, NoResult)
StartCheck(name) == Event("start_check", name, 0, NoResult)
CompleteCheck(name, result) == Event("complete_check", name, 0, result)
FinishChecks == Event("finish_checks", 0, 0, NoResult)
ShowHeader == Event("show_header", 0, 0, NoResult)
ShowSummary(success) ==
    Event(IF success THEN "show_summary(True)" ELSE "show_summary(False)",
          0, 0, NoResult)

\* variant: the reporter is never told that a check completed
NotifyNoComplete(evs, hasReporter, e) ==
    IF hasReporter /\ e.ev # "complete_check" THEN Append(evs, e) ELSE evs

\* `if self.reporter: self.reporter.<call>`
Notify(evs, hasReporter, e) == IF hasReporter THEN Append(evs, e) ELSE evs

RECURSIVE Repeat(_, _)
Repeat(e, n) == IF n = 0 THEN <<>> ELSE <<e>> \o Repeat(e, n - 1)

(***************************************************************************)
(* The order resolver on its own: Init draws an input list, the action     *)
(* applies _get_execution_order to it.                                     *)
(***************************************************************************)
InitOrder ==
    /\ \E k \in 1..MaxChecks :
        /\ checks_to_run = Upto(k)
        /\ registry = Upto(k)
        /\ dependencies \in [Names -> DepSets(DepNames)]
        /\ \A c \in Names : c > k => dependencies[c] = {}
    /\ optional = [c \in Names |-> FALSE]
    /\ config = CheckConfig(None, None, FALSE, TRUE, FALSE)
    /\ reporter \in BOOLEAN
    /\ pc = "order"
    /\ ordered_checks = <<>>
    /\ idx = 0
    /\ overall_success = TRUE
    /\ results = <<>>
    /\ events = <<>>
    /\ fallbacks = 0
    /\ invoked = <<>>
    /\ completed = <<>>
    /\ returned = <<>>
    /\ check_of = RegisterAll(EmptyRegistry, registry, "general").check_of
    /\ categories = RegisterAll(EmptyRegistry, registry, "general").categories
    /\ register_log = LogAll(registry, "general")
    /\ snapshot = NoSnapshot
    /\ left_to_order = <<>>
    /\ observed = <<>>
    /\ shadow = NoShadow
    /\ exit_code = <<>>

ResolveOrder ==
    /\ pc = "order"
    /\ LET r == GetExecutionOrder(dependencies, reporter, checks_to_run)
       IN  /\ ordered_checks' = r.ordered
           /\ events' = events \o Repeat(ShowError, r.errors)
           /\ fallbacks' = r.fallbacks
    /\ pc' = "ordered"
    /\ UNCHANGED <<check_of, categories, register_log, snapshot,
                   left_to_order, observed, shadow, exit_code>>
    /\ UNCHANGED <<registry, optional, dependencies, config, reporter,
                   checks_to_run, idx, overall_success, results, invoked,
                   completed, returned>>

NextOrder == ResolveOrder

SpecOrder == InitOrder /\ [][NextOrder]_vars

(***************************************************************************)
(* HealthCheckRunner.run_all_checks                                        *)
(***************************************************************************)
\* variant: a new key is placed before the keys already present
DictSetFront(d, k, v) ==
    IF \E i \in 1..Len(d) : d[i].name = k
    THEN [i \in 1..Len(d) |-> IF d[i].name = k
                              THEN [name |-> k, result |-> v] ELSE d[i]]
    ELSE <<[name |-> k, result |-> v]>> \o d

\* dict item assignment d[k] = v on an insertion-ordered dict
DictSet(d, k, v) ==
    IF \E i \in 1..Len(d) : d[i].name = k
    THEN [i \in 1..Len(d) |-> IF d[i].name = k
                              THEN [name |-> k, result |-> v] ELSE d[i]]
    ELSE Append(d, [name |-> k, result |-> v])

DictKeys(d) == {d[i].name : i \in 1..Len(d)}

\* list(d): the keys in iteration order
DictKeyList(d) == [i \in 1..Len(d) |-> d[i].name]

DictGet(d, k) == d[CHOOSE i \in 1..Len(d) : d[i].name = k].result

\* HealthCheckRunner.get_results
GetResults == results

\* variant: complete_check is called before the result is stored
ResultsBeforeStore(before, after) == before

\* lines 174-177 and 192-196: the result is stored, then complete_check is
\* called; `before` and `after` are self.results around the store
ResultsAtCompletion(before, after) == after

\* text of a raised exception, str(e)
ExcTexts == {<<"err">>}
\* statuses a check's run may return
ReturnStatuses == {PASSED, FAILED, PENDING}

ExceptionPrefix == <<"Check failed with exception: ">>
Traceback == "traceback"

\* variant: the message is the bare exception text
ErrorResultBare(text, verbose) ==
    CheckResult(FAILED, text, IF verbose THEN Traceback ELSE NoDetails)

\* variant: the stack trace is never attached
ErrorResultNoDetails(text, verbose) ==
    CheckResult(FAILED, ExceptionPrefix \o text, NoDetails)

\* the CheckResult built in the except branch (lines 186-191)
ErrorResult(text, verbose) ==
    CheckResult(FAILED, ExceptionPrefix \o text,
                IF verbose THEN Traceback ELSE NoDetails)

\* lines 180-181: does a returned result clear overall_success
ReturnedFailure(result, isOptional) ==
    result.status = FAILED /\ ~isOptional

\* variant: any returned failure leaves the loop, whatever the configuration
BreakOnAnyFailure(cfg, result, isOptional) == result.status = FAILED

\* variant: a returned failure never leaves the loop
BreakOnReturnNever(cfg, result, isOptional) == FALSE

\* lines 182-183: break after a returned critical failure
BreakOnReturn(cfg, result, isOptional) ==
    ReturnedFailure(result, isOptional) /\ ~cfg.continue_on_failure

\* variant: a raised failure always leaves the loop
BreakOnRaiseAlways(cfg, isOptional) == TRUE

\* lines 198-199: break after a raised failure
BreakOnRaise(cfg, isOptional) == ~cfg.continue_on_failure

\* all_checks filtered by _should_run_check (lines 152-153)
SelectChecks ==
    FilterSeq(registry,
              {c \in Range(registry) : ShouldRunCheck(config, c, optional[c])})

\* variant: an empty run is announced like any other run
RunNoChecksAnnounced ==
    /\ pc = "idle"
    /\ SelectChecks = <<>>
    /\ checks_to_run' = <<>>
    /\ events' = Notify(Notify(events, reporter, StartChecks(0)),
                        reporter, FinishChecks)
    /\ returned' = <<TRUE>>
    /\ pc' = "finished"
    /\ UNCHANGED <<check_of, categories, register_log, snapshot,
                   left_to_order, observed, shadow, exit_code>>
    /\ UNCHANGED <<registry, optional, dependencies, config, reporter,
                   ordered_checks, idx, overall_success, results, fallbacks,
                   invoked, completed>>

\* variant: an empty run empties the registry
RunNoChecksClearsRegistry ==
    /\ pc = "idle"
    /\ SelectChecks = <<>>
    /\ checks_to_run' = <<>>
    /\ events' = Notify(events, reporter, ShowWarning)
    /\ returned' = <<TRUE>>
    /\ pc' = "finished"
    /\ registry' = <<>>
    /\ UNCHANGED <<check_of, categories, register_log, snapshot,
                   left_to_order, observed, shadow, exit_code>>
    /\ UNCHANGED <<optional, dependencies, config, reporter,
                   ordered_checks, idx, overall_success, results, fallbacks,
                   invoked, completed>>

\* lines 155-158: nothing selected
RunNoChecks ==
    /\ pc = "idle"
    /\ SelectChecks = <<>>
    /\ checks_to_run' = <<>>
    /\ events' = Notify(events, reporter, ShowWarning)
    /\ returned' = <<TRUE>>
    /\ pc' = "finished"
    /\ UNCHANGED <<check_of, categories, register_log, snapshot,
                   left_to_order, observed, shadow, exit_code>>
    /\ UNCHANGED <<registry, optional, dependencies, config, reporter,
                   ordered_checks, idx, overall_success, results, fallbacks,
                   invoked, completed>>

\* lines 161-173 up to the first await: order, start_checks, first start_check
RunStart ==
    /\ pc = "idle"
    /\ SelectChecks # <<>>
    /\ LET r == GetExecutionOrder(dependencies, reporter, SelectChecks)
           first == r.ordered[1]
       IN  /\ checks_to_run' = SelectChecks
           /\ ordered_checks' = r.ordered
           /\ fallbacks' = r.fallbacks
           /\ events' = Notify(Notify(events \o Repeat(ShowError, r.errors),
                                      reporter, StartChecks(Len(r.ordered))),
                               reporter, StartCheck(first))
           /\ invoked' = Append(invoked, first)
    /\ overall_success' = TRUE
    /\ idx' = 1
    /\ pc' = "awaiting"
    /\ UNCHANGED <<check_of, categories, register_log, snapshot,
                   left_to_order, observed, shadow, exit_code>>
    /\ UNCHANGED <<registry, optional, dependencies, config, reporter,
                   results, completed, returned>>

\* the rest of one loop iteration after check.run ended with `result`:
\* store, complete_check, update overall_success, then either leave the loop
\* (finish_checks, return) or start the next check up to its await
AfterRun(result, raised, success, break) ==
    LET name == ordered_checks[idx]
        evs == Notify(events, reporter, CompleteCheck(name, result))
        leave == break \/ idx = Len(ordered_checks)
    IN  /\ results' = DictSet(results, name, result)
        /\ completed' = Append(completed,
                               [name |-> name, result |-> result,
                                raised |-> raised])
        /\ overall_success' = success
        /\ IF leave
           THEN /\ events' = Notify(evs, reporter, FinishChecks)
                /\ returned' = <<success>>
                /\ pc' = "finished"
                /\ UNCHANGED <<idx, invoked>>
           ELSE /\ events' = Notify(evs, reporter,
                                    StartCheck(ordered_checks[idx + 1]))
                /\ invoked' = Append(invoked, ordered_checks[idx + 1])
                /\ idx' = idx + 1
                /\ UNCHANGED <<pc, returned>>
        /\ observed' = IF reporter
                       THEN Append(observed,
                                   [name |-> name, result |-> result,
                                    stored |-> ResultsAtCompletion(
                                        results, DictSet(results, name, result))])
                       ELSE observed
        /\ UNCHANGED <<check_of, categories, register_log, snapshot,
                       left_to_order, shadow, exit_code>>
        /\ UNCHANGED <<registry, optional, dependencies, config, reporter,
                       checks_to_run, ordered_checks, fallbacks>>

\* lines 173-183: check.run returned a result
CheckReturns ==
    /\ pc = "awaiting"
    /\ \E status \in ReturnStatuses :
        LET result == CheckResult(status, <<"message">>, NoDetails)
            isOptional == optional[ordered_checks[idx]]
        IN  AfterRun(result, FALSE,
                     IF ReturnedFailure(result, isOptional)
                     THEN FALSE ELSE overall_success,
                     BreakOnReturn(config, result, isOptional))

\* lines 185-199: check.run raised an Exception
CheckRaises ==
    /\ pc = "awaiting"
    /\ \E text \in ExcTexts :
        AfterRun(ErrorResult(text, config.verbose), TRUE, FALSE,
                 BreakOnRaise(config, optional[ordered_checks[idx]]))

\* the Optional[List[str]] values of the configuration
NameLists ==
    {None} \cup {ListOf(S) : S \in {{0}} \cup (SUBSET RegNames \ {{}})}

\* _load_checks: the system checks, then the tool checks (lines 86-93)
LoadChecks ==
    RegisterAll(RegisterAll(EmptyRegistry, <<1>>, "system"), <<2>>, "tools")

Init ==
    /\ registry = Upto(Cardinality(RegNames))
    /\ optional \in [RegNames -> BOOLEAN]
    /\ dependencies \in [RegNames -> DepSets(RegDepNames)]
    /\ \E specific \in NameLists, include \in NameLists,
          skip \in BOOLEAN, continue \in BOOLEAN, verbose \in BOOLEAN :
            config = CheckConfig(specific, include, skip, continue, verbose)
    /\ reporter \in BOOLEAN
    /\ pc = "idle"
    /\ checks_to_run = <<>>
    /\ ordered_checks = <<>>
    /\ idx = 0
    /\ overall_success = TRUE
    /\ results = <<>>
    /\ events = <<>>
    /\ fallbacks = 0
    /\ invoked = <<>>
    /\ completed = <<>>
    /\ returned = <<>>
    /\ check_of = LoadChecks.check_of
    /\ categories = LoadChecks.categories
    /\ register_log = LogAll(<<1>>, "system") \o LogAll(<<2>>, "tools")
    /\ snapshot = NoSnapshot
    /\ left_to_order = <<>>
    /\ observed = <<>>
    /\ shadow = NoShadow
    /\ exit_code = <<>>

Next == RunNoChecks \/ RunStart \/ CheckReturns \/ CheckRaises

Spec == Init /\ [][Next]_vars

(***************************************************************************)
(* The selection policy on its own: Init draws a registry of MaxChecks     *)
(* checks and a configuration, the action filters the registry with        *)
(* _should_run_check as run_all_checks does (lines 152-153).               *)
(***************************************************************************)
\* every Optional[List[str]] over the names, None and [] included
AllNameLists == {None} \cup {ListOf(S) : S \in SUBSET DepNames}

InitSelect ==
    /\ registry = Upto(MaxChecks)
    /\ optional \in [Names -> BOOLEAN]
    /\ dependencies = [c \in Names |-> {}]
    /\ \E specific \in AllNameLists, include \in AllNameLists,
          skip \in BOOLEAN :
            config = CheckConfig(specific, include, skip, TRUE, FALSE)
    /\ reporter = FALSE
    /\ pc = "select"
    /\ checks_to_run = <<>>
    /\ ordered_checks = <<>>
    /\ idx = 0
    /\ overall_success = TRUE
    /\ results = <<>>
    /\ events = <<>>
    /\ fallbacks = 0
    /\ invoked = <<>>
    /\ completed = <<>>
    /\ returned = <<>>
    /\ check_of = RegisterAll(EmptyRegistry, registry, "general").check_of
    /\ categories = RegisterAll(EmptyRegistry, registry, "general").categories
    /\ register_log = LogAll(registry, "general")
    /\ snapshot = NoSnapshot
    /\ left_to_order = <<>>
    /\ observed = <<>>
    /\ shadow = NoShadow
    /\ exit_code = <<>>

ApplySelection ==
    /\ pc = "select"
    /\ checks_to_run' = SelectChecks
    /\ pc' = "selected"
    /\ UNCHANGED <<check_of, categories, register_log, snapshot,
                   left_to_order, observed, shadow, exit_code>>
    /\ UNCHANGED <<registry, optional, dependencies, config, reporter,
                   ordered_checks, idx, overall_success, results, events,
                   fallbacks, invoked, completed, returned>>

NextSelect == ApplySelection

SpecSelect == InitSelect /\ [][NextSelect]_vars

(***************************************************************************)
(* The registry on its own: it starts empty (HealthCheckRegistry.__init__) *)
(* and receives register calls with checks and categories of the caller's  *)
(* choice.                                                                 *)
(***************************************************************************)
\* check objects a caller may register: two names, two objects per name
CheckObjects == {Check(id, name) : id \in {1, 2}, name \in {1, 2}}
Categories == {"general", "tools"}

InitRegistry ==
    /\ registry = <<>>
    /\ check_of = <<>>
    /\ categories = <<>>
    /\ register_log = <<>>
    /\ optional = [c \in Names |-> FALSE]
    /\ dependencies = [c \in Names |-> {}]
    /\ config = CheckConfig(None, None, FALSE, TRUE, FALSE)
    /\ reporter = FALSE
    /\ pc = "registry"
    /\ checks_to_run = <<>>
    /\ ordered_checks = <<>>
    /\ idx = 0
    /\ overall_success = TRUE
    /\ results = <<>>
    /\ events = <<>>
    /\ fallbacks = 0
    /\ invoked = <<>>
    /\ completed = <<>>
    /\ returned = <<>>
    /\ snapshot = NoSnapshot
    /\ left_to_order = <<>>
    /\ observed = <<>>
    /\ shadow = NoShadow
    /\ exit_code = <<>>

\* HealthCheckRegistry.register(check, category)
Register ==
    /\ pc = "registry"
    /\ Len(register_log) < MaxRegisters
    /\ \E check \in CheckObjects, category \in Categories :
        LET st == RegisterIn([registry |-> registry, check_of |-> check_of,
                              categories |-> categories], check, category)
        IN  /\ registry' = st.registry
            /\ check_of' = st.check_of
            /\ categories' = st.categories
            /\ register_log' = Append(register_log,
                                      [check |-> check, category |-> category])
    /\ UNCHANGED <<optional, dependencies, config, reporter, pc,
                   checks_to_run, ordered_checks, idx, overall_success,
                   results, events, fallbacks, invoked, completed, returned,
                   snapshot, left_to_order, observed, shadow, exit_code>>

NextRegistry == Register

SpecRegistry == InitRegistry /\ [][NextRegistry]_vars

(***************************************************************************)
(* A fresh runner and a caller of get_results: the run proceeds as in Spec *)
(* and, between any two steps of it (run_all_checks is a coroutine that    *)
(* yields at `await check.run`), the caller takes the results and changes  *)
(* the mapping it was given.                                               *)
(***************************************************************************)
\* a value the caller writes into the mapping it holds
CallerResult == CheckResult(SKIPPED, <<"caller">>, NoDetails)

InitSnapshot ==
    /\ registry = Upto(Cardinality(RegNames))
    /\ optional \in [RegNames -> BOOLEAN]
    /\ dependencies = [c \in RegNames |-> {}]
    /\ \E continue \in BOOLEAN :
            config = CheckConfig(None, None, FALSE, continue, FALSE)
    /\ reporter = FALSE
    /\ pc = "idle"
    /\ checks_to_run = <<>>
    /\ ordered_checks = <<>>
    /\ idx = 0
    /\ overall_success = TRUE
    /\ results = <<>>
    /\ events = <<>>
    /\ fallbacks = 0
    /\ invoked = <<>>
    /\ completed = <<>>
    /\ returned = <<>>
    /\ check_of = LoadChecks.check_of
    /\ categories = LoadChecks.categories
    /\ register_log = LogAll(<<1>>, "system") \o LogAll(<<2>>, "tools")
    /\ snapshot = NoSnapshot
    /\ left_to_order = <<>>
    /\ observed = <<>>
    /\ shadow = NoShadow
    /\ exit_code = <<>>

\* the caller calls get_results and keeps what it returns
CallGetResults ==
    /\ snapshot' = ResultsCopy(results)
    /\ UNCHANGED <<registry, optional, dependencies, config, reporter, pc,
                   checks_to_run, ordered_checks, idx, overall_success,
                   results, events, fallbacks, invoked, completed, returned,
                   check_of, categories, register_log,
                   left_to_order, observed, shadow, exit_code>>

\* the caller changes the mapping it holds, d.clear() or d[k] = v; the
\* runner's dict changes with it exactly when it is the same object
CallerMutates ==
    /\ snapshot.taken
    /\ \E items \in {<<>>} \cup {DictSet(snapshot.items, k, CallerResult) :
                                    k \in RegDepNames} :
        /\ items # snapshot.items
        /\ snapshot' = [snapshot EXCEPT !.items = items]
        /\ results' = IF snapshot.shared THEN items ELSE results
    /\ UNCHANGED <<registry, optional, dependencies, config, reporter, pc,
                   checks_to_run, ordered_checks, idx, overall_success,
                   events, fallbacks, invoked, completed, returned,
                   check_of, categories, register_log,
                   left_to_order, observed, shadow, exit_code>>

NextSnapshot ==
    \/ RunNoChecks \/ RunStart \/ CheckReturns \/ CheckRaises
    \/ CallGetResults \/ CallerMutates

SpecSnapshot == InitSnapshot /\ [][NextSnapshot]_vars

(***************************************************************************)
(* Two runs of the same checks: a runner with a reporter runs to the end,  *)
(* then a fresh runner built without one (HealthCheckRunner(None, config), *)
(* the same registry and configuration) runs, each execution ending as the *)
(* execution of the same rank ended in the first run.                      *)
(***************************************************************************)
InitObserver ==
    /\ registry = Upto(Cardinality(RegNames))
    /\ optional \in [RegNames -> BOOLEAN]
    /\ dependencies \in [RegNames -> DepSets(RegDepNames)]
    /\ \E specific \in NameLists, continue \in BOOLEAN :
            config = CheckConfig(specific, None, FALSE, continue, FALSE)
    /\ reporter = TRUE
    /\ pc = "idle"
    /\ checks_to_run = <<>>
    /\ ordered_checks = <<>>
    /\ idx = 0
    /\ overall_success = TRUE
    /\ results = <<>>
    /\ events = <<>>
    /\ fallbacks = 0
    /\ invoked = <<>>
    /\ completed = <<>>
    /\ returned = <<>>
    /\ check_of = LoadChecks.check_of
    /\ categories = LoadChecks.categories
    /\ register_log = LogAll(<<1>>, "system") \o LogAll(<<2>>, "tools")
    /\ snapshot = NoSnapshot
    /\ left_to_order = <<>>
    /\ observed = <<>>
    /\ shadow = NoShadow
    /\ exit_code = <<>>

\* in the second run the execution that ends now ends as the execution of
\* the same rank ended in the first run
SameOutcome ==
    shadow.taken =>
        LET n == Len(completed) + 1
        IN  /\ n <= Len(shadow.outcomes)
            /\ completed'[n].result = shadow.outcomes[n].result
            /\ completed'[n].raised = shadow.outcomes[n].raised

ReplayReturns == CheckReturns /\ SameOutcome

ReplayRaises == CheckRaises /\ SameOutcome

\* the first run is over: its outcome is kept and a fresh runner is built
\* without a reporter (HealthCheckRunner.__init__, lines 71-76)
RunDetached ==
    /\ pc = "finished"
    /\ ~shadow.taken
    /\ shadow' = [taken |-> TRUE, ordered |-> ordered_checks,
                  invoked |-> invoked, results |-> results,
                  returned |-> returned, outcomes |-> completed]
    /\ reporter' = FALSE
    /\ pc' = "idle"
    /\ checks_to_run' = <<>>
    /\ ordered_checks' = <<>>
    /\ idx' = 0
    /\ overall_success' = TRUE
    /\ results' = <<>>
    /\ events' = <<>>
    /\ fallbacks' = 0
    /\ invoked' = <<>>
    /\ completed' = <<>>
    /\ returned' = <<>>
    /\ observed' = <<>>
    /\ UNCHANGED <<registry, optional, dependencies, config, check_of,
                   categories, register_log, snapshot, left_to_order,
                   exit_code>>

NextObserver ==
    RunNoChecks \/ RunStart \/ ReplayReturns \/ ReplayRaises \/ RunDetached

SpecObserver == InitObserver /\ [][NextObserver]_vars

(***************************************************************************)
(* main.py, the `check` command: it builds the configuration from the      *)
(* command line (continue_on_failure keeps its default, True), a reporter  *)
(* and a runner, shows the header, runs the checks, shows the summary and  *)
(* exits.                                                                  *)
(***************************************************************************)
\* variant: the command always ends normally
ExitCodeZero(success) == 0

\* `if not success: raise typer.Exit(1)` (lines 57-58); a command that
\* returns ends the process with code 0
ExitCode(success) == IF success THEN 0 ELSE 1

InitCommand ==
    /\ registry = Upto(Cardinality(RegNames))
    /\ optional \in [RegNames -> BOOLEAN]
    /\ dependencies \in [RegNames -> DepSets(RegDepNames)]
    /\ \E specific \in NameLists, include \in {None, ListOf({2})},
          skip \in BOOLEAN, verbose \in BOOLEAN :
            config = CheckConfig(specific, include, skip, TRUE, verbose)
    /\ reporter = TRUE
    /\ pc = "idle"
    /\ checks_to_run = <<>>
    /\ ordered_checks = <<>>
    /\ idx = 0
    /\ overall_success = TRUE
    /\ results = <<>>
    /\ events = <<ShowHeader>>
    /\ fallbacks = 0
    /\ invoked = <<>>
    /\ completed = <<>>
    /\ returned = <<>>
    /\ check_of = LoadChecks.check_of
    /\ categories = LoadChecks.categories
    /\ register_log = LogAll(<<1>>, "system") \o LogAll(<<2>>, "tools")
    /\ snapshot = NoSnapshot
    /\ left_to_order = <<>>
    /\ observed = <<>>
    /\ shadow = NoShadow
    /\ exit_code = <<>>

\* lines 53-58: asyncio.run returned `success`; summary, then exit
CommandExits ==
    /\ pc = "finished"
    /\ events' = Append(events, ShowSummary(returned[1]))
    /\ exit_code' = <<ExitCode(returned[1])>>
    /\ pc' = "exited"
    /\ UNCHANGED <<registry, optional, dependencies, config, reporter,
                   checks_to_run, ordered_checks, idx, overall_success,
                   results, fallbacks, invoked, completed, returned,
                   check_of, categories, register_log, snapshot,
                   left_to_order, observed, shadow>>

NextCommand ==
    RunNoChecks \/ RunStart \/ CheckReturns \/ CheckRaises \/ CommandExits

SpecCommand == InitCommand /\ [][NextCommand]_vars

(***************************************************************************)
(* _get_execution_order pass by pass: one action per iteration of its      *)
(* while loop, `ordered` kept in ordered_checks and `remaining` in         *)
(* left_to_order.                                                          *)
(***************************************************************************)
\* lines 137-144: what a pass appends to `ordered`, the ready checks or,
\* when there are none, the list `remaining` itself
TakenChecks(ready, left) == IF ready = <<>> THEN left ELSE ready

\* variant: a pass that finds nothing ready takes nothing and changes nothing
OrderPassNoFallback ==
    /\ pc = "ordering"
    /\ left_to_order # <<>>
    /\ LET ready == ReadyChecks(dependencies, left_to_order, ordered_checks)
       IN  /\ ordered_checks' = ordered_checks \o ready
           /\ left_to_order' = RemoveLoop(ready, left_to_order, FALSE, 1)
    /\ UNCHANGED <<registry, optional, dependencies, config, reporter, pc,
                   checks_to_run, idx, overall_success, results, invoked,
                   completed, returned, check_of, categories, register_log,
                   snapshot, observed, shadow, exit_code, events, fallbacks>>

\* lines 128-146: one iteration of `while remaining`
OrderPass ==
    /\ pc = "ordering"
    /\ left_to_order # <<>>
    /\ LET ready == ReadyChecks(dependencies, left_to_order, ordered_checks)
           stuck == ready = <<>>
           taken == TakenChecks(ready, left_to_order)
       IN  /\ ordered_checks' = ordered_checks \o taken
           /\ left_to_order' = RemoveLoop(taken, left_to_order, stuck, 1)
           /\ events' = IF stuck THEN Notify(events, reporter, ShowError)
                        ELSE events
           /\ fallbacks' = IF stuck THEN fallbacks + 1 ELSE fallbacks
    /\ UNCHANGED <<registry, optional, dependencies, config, reporter, pc,
                   checks_to_run, idx, overall_success, results, invoked,
                   completed, returned, check_of, categories, register_log,
                   snapshot, observed, shadow, exit_code>>

\* the resolver called on its own on an input list (lines 125-126)
InitPasses ==
    /\ \E k \in 1..MaxChecks :
        /\ checks_to_run = Upto(k)
        /\ registry = Upto(k)
        /\ dependencies \in [Names -> DepSets(DepNames)]
        /\ \A c \in Names : c > k => dependencies[c] = {}
    /\ optional = [c \in Names |-> FALSE]
    /\ config = CheckConfig(None, None, FALSE, TRUE, FALSE)
    /\ reporter \in BOOLEAN
    /\ pc = "ordering"
    /\ ordered_checks = <<>>
    /\ left_to_order = checks_to_run
    /\ idx = 0
    /\ overall_success = TRUE
    /\ results = <<>>
    /\ events = <<>>
    /\ fallbacks = 0
    /\ invoked = <<>>
    /\ completed = <<>>
    /\ returned = <<>>
    /\ check_of = RegisterAll(EmptyRegistry, registry, "general").check_of
    /\ categories = RegisterAll(EmptyRegistry, registry, "general").categories
    /\ register_log = LogAll(registry, "general")
    /\ snapshot = NoSnapshot
    /\ observed = <<>>
    /\ shadow = NoShadow
    /\ exit_code = <<>>

\* line 148: the loop is left, `ordered` is returned
OrderReturns ==
    /\ pc = "ordering"
    /\ left_to_order = <<>>
    /\ pc' = "ordered"
    /\ UNCHANGED <<registry, optional, dependencies, config, reporter,
                   checks_to_run, ordered_checks, idx, overall_success,
                   results, events, fallbacks, invoked, completed, returned,
                   check_of, categories, register_log, snapshot,
                   left_to_order, observed, shadow, exit_code>>

NextPasses == OrderPass \/ OrderReturns

SpecPasses == InitPasses /\ [][NextPasses]_vars

(***************************************************************************)
(* run_all_checks with the resolver taken pass by pass, every step of the  *)
(* run eventually taken: the coroutine is driven to its end and each       *)
(* check's run ends, by returning or by raising.                           *)
(***************************************************************************)
InitLive ==
    /\ registry = Upto(Cardinality(RegNames))
    /\ optional \in [RegNames -> BOOLEAN]
    /\ dependencies \in [RegNames -> DepSets(RegDepNames)]
    /\ \E specific \in {None, ListOf({0})}, continue \in BOOLEAN :
            config = CheckConfig(specific, None, FALSE, continue, FALSE)
    /\ reporter \in BOOLEAN
    /\ pc = "idle"
    /\ checks_to_run = <<>>
    /\ ordered_checks = <<>>
    /\ idx = 0
    /\ overall_success = TRUE
    /\ results = <<>>
    /\ events = <<>>
    /\ fallbacks = 0
    /\ invoked = <<>>
    /\ completed = <<>>
    /\ returned = <<>>
    /\ check_of = LoadChecks.check_of
    /\ categories = LoadChecks.categories
    /\ register_log = LogAll(<<1>>, "system") \o LogAll(<<2>>, "tools")
    /\ snapshot = NoSnapshot
    /\ left_to_order = <<>>
    /\ observed = <<>>
    /\ shadow = NoShadow
    /\ exit_code = <<>>

\* lines 152-161 and 125-126: select, enter _get_execution_order
BeginOrder ==
    /\ pc = "idle"
    /\ SelectChecks # <<>>
    /\ checks_to_run' = SelectChecks
    /\ left_to_order' = SelectChecks
    /\ ordered_checks' = <<>>
    /\ pc' = "ordering"
    /\ UNCHANGED <<registry, optional, dependencies, config, reporter, idx,
                   overall_success, results, events, fallbacks, invoked,
                   completed, returned, check_of, categories, register_log,
                   snapshot, observed, shadow, exit_code>>

\* lines 148 and 163-173: the order is returned, start_checks, the first
\* start_check, up to the first await
StartLoop ==
    /\ pc = "ordering"
    /\ left_to_order = <<>>
    /\ events' = Notify(Notify(events, reporter,
                               StartChecks(Len(ordered_checks))),
                        reporter, StartCheck(ordered_checks[1]))
    /\ invoked' = Append(invoked, ordered_checks[1])
    /\ overall_success' = TRUE
    /\ idx' = 1
    /\ pc' = "awaiting"
    /\ UNCHANGED <<registry, optional, dependencies, config, reporter,
                   checks_to_run, ordered_checks, results, fallbacks,
                   completed, returned, check_of, categories, register_log,
                   snapshot, left_to_order, observed, shadow, exit_code>>

NextLive ==
    \/ RunNoChecks \/ BeginOrder \/ OrderPass \/ StartLoop
    \/ CheckReturns \/ CheckRaises

SpecLive == InitLive /\ [][NextLive]_vars /\ WF_vars(NextLive)

(***************************************************************************)
(* The registry and a caller of get_all_checks: between register calls the *)
(* caller takes the name-to-check mapping and adds, replaces or deletes    *)
(* entries of the mapping it was given.  A mapping is [registry, check_of],*)
(* its keys in insertion order and the check under each key.               *)
(***************************************************************************)
\* variant: get_all_checks returns self._checks itself
ChecksShared(m) == [taken |-> TRUE, shared |-> TRUE, items |-> m]

\* self._checks.copy() (line 61): a new dict with the same items
ChecksCopy(m) == [taken |-> TRUE, shared |-> FALSE, items |-> m]

\* del m[name]
MapDel(m, name) ==
    [registry |-> ListRemove(m.registry, name),
     check_of |-> [n \in DOMAIN m.check_of \ {name} |-> m.check_of[n]]]

\* m[name] = check
MapSet(m, name, check) ==
    [registry |-> IF name \in Range(m.registry) THEN m.registry
                  ELSE Append(m.registry, name),
     check_of |-> SetCheck(m.check_of, name, check)]

\* a check object of the caller's own, under the name it is stored at
CallerCheck(name) == Check(0, name)

\* the caller calls get_all_checks and keeps what it returns
CallGetAllChecks ==
    /\ pc = "registry"
    /\ snapshot' = ChecksCopy([registry |-> registry, check_of |-> check_of])
    /\ UNCHANGED <<registry, optional, dependencies, config, reporter, pc,
                   checks_to_run, ordered_checks, idx, overall_success,
                   results, events, fallbacks, invoked, completed, returned,
                   check_of, categories, register_log,
                   left_to_order, observed, shadow, exit_code>>

\* the caller deletes an entry of the mapping it holds, or assigns one; the
\* registry's dict changes with it exactly when it is the same object
CallerEdits ==
    /\ pc = "registry"
    /\ snapshot.taken
    /\ \E items \in {MapDel(snapshot.items, k) :
                        k \in Range(snapshot.items.registry)}
                    \cup {MapSet(snapshot.items, k, CallerCheck(k)) :
                            k \in RegNames} :
        /\ items # snapshot.items
        /\ snapshot' = [snapshot EXCEPT !.items = items]
        /\ registry' = IF snapshot.shared THEN items.registry ELSE registry
        /\ check_of' = IF snapshot.shared THEN items.check_of ELSE check_of
    /\ UNCHANGED <<optional, dependencies, config, reporter, pc,
                   checks_to_run, ordered_checks, idx, overall_success,
                   results, events, fallbacks, invoked, completed, returned,
                   categories, register_log,
                   left_to_order, observed, shadow, exit_code>>

NextCatalog == Register \/ CallGetAllChecks \/ CallerEdits

SpecCatalog == InitRegistry /\ [][NextCatalog]_vars

(***************************************************************************)
(* run_all_checks called twice on the same runner: the attributes of the   *)
(* runner (registry, config, reporter, results) are those the first call   *)
(* left, the locals of the call are new.                                   *)
(***************************************************************************)
InitRerun ==
    /\ registry = Upto(Cardinality(RegNames))
    /\ optional \in [RegNames -> BOOLEAN]
    /\ dependencies \in [RegNames -> DepSets(RegDepNames)]
    /\ \E continue \in BOOLEAN :
            config = CheckConfig(None, None, FALSE, continue, FALSE)
    /\ reporter = FALSE
    /\ pc = "idle"
    /\ checks_to_run = <<>>
    /\ ordered_checks = <<>>
    /\ idx = 0
    /\ overall_success = TRUE
    /\ results = <<>>
    /\ events = <<>>
    /\ fallbacks = 0
    /\ invoked = <<>>
    /\ completed = <<>>
    /\ returned = <<>>
    /\ check_of = LoadChecks.check_of
    /\ categories = LoadChecks.categories
    /\ register_log = LogAll(<<1>>, "system") \o LogAll(<<2>>, "tools")
    /\ snapshot = NoSnapshot
    /\ left_to_order = <<>>
    /\ observed = <<>>
    /\ shadow = NoShadow
    /\ exit_code = <<>>

\* the first call has returned; the caller calls run_all_checks again.
\* Nothing in run_all_checks (lines 150-204) assigns self.results a new
\* dict, so the second call starts with the results the first one left.
RunAgain ==
    /\ pc = "finished"
    /\ ~shadow.taken
    /\ shadow' = [taken |-> TRUE, ordered |-> ordered_checks,
                  invoked |-> invoked, results |-> results,
                  returned |-> returned, outcomes |-> completed]
    /\ pc' = "idle"
    /\ checks_to_run' = <<>>
    /\ ordered_checks' = <<>>
    /\ idx' = 0
    /\ overall_success' = TRUE
    /\ fallbacks' = 0
    /\ invoked' = <<>>
    /\ completed' = <<>>
    /\ returned' = <<>>
    /\ observed' = <<>>
    /\ UNCHANGED <<registry, optional, dependencies, config, reporter,
                   results, events, check_of, categories, register_log,
                   snapshot, left_to_order, exit_code>>

NextRerun ==
    RunNoChecks \/ RunStart \/ CheckReturns \/ CheckRaises \/ RunAgain

SpecRerun == InitRerun /\ [][NextRerun]_vars

(***************************************************************************)
(* Vocabulary of the properties                                            *)
(***************************************************************************)
Selected == Range(checks_to_run)

\* dependencies of c that are themselves selected
SelectedDeps(c) == dependencies[c] \cap Selected

RECURSIVE DepClosure(_)
DepClosure(S) ==
    LET more == S \cup UNION {SelectedDeps(d) : d \in S}
    IN  IF more = S THEN S ELSE DepClosure(more)

\* the selected checks c transitively depends on
TransitiveDeps(c) == DepClosure(SelectedDeps(c))

\* the dependency relation restricted to the selected checks has a cycle
HasCycle == \E c \in Selected : c \in TransitiveDeps(c)

\* every dependency name of a selected check is itself selected
AllDepsSelected == \A c \in Selected : dependencies[c] \subseteq Selected

\* some selected check names a dependency outside the selected set
SomeUnselectedDep == ~AllDepsSelected

IsPermutation(out, in) ==
    /\ Len(out) = Len(in)
    /\ \A c \in Range(in) \cup Range(out) : Count(out, c) = Count(in, c)

\* every check stands strictly after each of its selected dependencies
AfterSelectedDeps(out) ==
    \A c \in Selected : \A d \in SelectedDeps(c) :
        /\ d \in Range(out)
        /\ c \in Range(out)
        /\ \A i, j \in 1..Len(out) : (out[i] = c /\ out[j] = d) => j < i

Diagnostics == Count(events, ShowError)

Resolved == pc = "ordered"
Finished == pc = "finished"

IsRequiredFailure(e) == e.result.status = FAILED /\ ~optional[e.name]

SomeRequiredFailure == \E i \in 1..Len(completed) : IsRequiredFailure(completed[i])

HasPrefix(message, prefix) ==
    /\ Len(message) >= Len(prefix)
    /\ SubSeq(message, 1, Len(prefix)) = prefix

\* C1: in one run on a fresh runner no check's run is invoked twice
C1_RunAtMostOnce == \A c \in RegNames : Count(invoked, c) <= 1

\* C2: for an input with a dependency cycle the resolver's output is a
\* permutation of its input
C2_CycleOutputIsPermutation ==
    (Resolved /\ HasCycle) => IsPermutation(ordered_checks, checks_to_run)

\* C3: with an observer attached, an input with a dependency cycle gets the
\* dependency-cycle diagnostic exactly once
C3_CycleDiagnosticOnce ==
    (Resolved /\ reporter /\ HasCycle) => Diagnostics = 1

\* C4 as stated: when the dependency relation restricted to the selected
\* checks is acyclic, every check stands strictly after each of its selected
\* dependencies
C4_AcyclicIsTopological ==
    (Resolved /\ ~HasCycle) => AfterSelectedDeps(ordered_checks)

\* C4 amended: when that relation is acyclic and every dependency name of a
\* selected check is itself selected, the output is a permutation of the
\* input with every check strictly after each of its dependencies
C4_ClosedAcyclicIsTopological ==
    (Resolved /\ ~HasCycle /\ AllDepsSelected) =>
        /\ AfterSelectedDeps(ordered_checks)
        /\ IsPermutation(ordered_checks, checks_to_run)
        /\ fallbacks = 0

C4_Witness ==
    /\ Resolved /\ ~HasCycle /\ AllDepsSelected
    /\ Len(checks_to_run) = 3
    /\ ordered_checks = <<3, 2, 1>>

\* C5 as stated: a dependency on a name outside the selected set counts as
\* satisfied, so with an acyclic selected relation the fallback is never
\* taken and no diagnostic is emitted
C5_UnselectedDepSatisfied ==
    (Resolved /\ ~HasCycle /\ SomeUnselectedDep) =>
        (fallbacks = 0 /\ Diagnostics = 0)

\* C5 amended: a dependency on a name outside the selected set is never
\* satisfied; when a selected check names one, the fallback is taken and,
\* with an observer attached, the diagnostic is emitted
C5_UnselectedDepNeverMet ==
    (Resolved /\ SomeUnselectedDep) =>
        (fallbacks >= 1 /\ (reporter => Diagnostics >= 1))

\* selecting only a check that depends on an unselected one
C5_Witness ==
    /\ Resolved /\ reporter
    /\ checks_to_run = <<1>>
    /\ dependencies[1] = {2}
    /\ ordered_checks = <<1>>
    /\ fallbacks = 1 /\ Diagnostics = 1

\* C6: run_all_checks returns true iff no executed non-optional check ended
\* with a Failed result
C6_SuccessIffNoRequiredFailure ==
    Finished => (returned = <<TRUE>> <=> ~SomeRequiredFailure)

\* C7: with continue_on_failure=false a Failed non-optional check is the
\* last one executed: nothing after it is started or recorded, the results
\* hold exactly the checks up to it, and the run returns false
C7_StopOnRequiredFailure ==
    \A i \in 1..Len(completed) :
        (~config.continue_on_failure /\ IsRequiredFailure(completed[i])) =>
            /\ i = Len(completed)
            /\ Finished
            /\ invoked = SubSeq(ordered_checks, 1, i)
            /\ DictKeys(GetResults) = Range(SubSeq(ordered_checks, 1, i))
            /\ returned = <<FALSE>>

C7_Witness ==
    /\ Finished /\ ~config.continue_on_failure
    /\ Len(completed) = 1 /\ Len(ordered_checks) = 2
    /\ IsRequiredFailure(completed[1]) /\ ~completed[1].raised
    /\ DictKeys(GetResults) = {ordered_checks[1]}

C9_HaltOnlyOnRequiredFailure ==
    (Finished /\ checks_to_run # <<>> /\ Len(completed) < Len(ordered_checks)) =>
        /\ ~config.continue_on_failure
        /\ IsRequiredFailure(completed[Len(completed)])

C11_EmptyRun ==
    (Finished /\ SelectChecks = <<>>) =>
        /\ returned = <<TRUE>>
        /\ GetResults = <<>>
        /\ invoked = <<>>
        /\ completed = <<>>
        /\ events = IF reporter THEN <<ShowWarning>> ELSE <<>>

C11_Witness ==
    /\ Finished /\ reporter
    /\ SelectChecks = <<>>
    /\ optional[1] /\ optional[2]
    /\ events = <<ShowWarning>>
    /\ returned = <<TRUE>>

SelectionDone == pc = "selected"

\* C12: with a non-empty specific_checks the selected set is exactly the
\* registered checks named in it, whatever optional, skip_optional and
\* include_optional are
C12_SpecificChecksOverride ==
    (SelectionDone /\ Truthy(config.specific_checks)) =>
        Selected = Range(registry) \cap config.specific_checks.names

\* an optional check named in specific_checks, with skip_optional set and an
\* include_optional that does not name it
C12_Witness ==
    /\ SelectionDone
    /\ config.specific_checks = ListOf({1})
    /\ config.include_optional = ListOf({2})
    /\ config.skip_optional
    /\ optional[1] /\ ~optional[2]
    /\ checks_to_run = <<1>>

\* C13: without specific_checks an optional check is selected iff
\* skip_optional is false and a non-empty include_optional names it
C13_OptionalIsOptIn ==
    (SelectionDone /\ ~Truthy(config.specific_checks)) =>
        \A c \in Range(registry) :
            optional[c] =>
                (c \in Selected <=>
                    /\ ~config.skip_optional
                    /\ Truthy(config.include_optional)
                    /\ c \in config.include_optional.names)

\* two optional checks, include_optional names the second only
C13_Witness ==
    /\ SelectionDone
    /\ config.specific_checks = ListOf({})
    /\ config.include_optional = ListOf({2})
    /\ ~config.skip_optional
    /\ optional[1] /\ optional[2]
    /\ 2 \in Selected /\ 1 \notin Selected

\* C14: without specific_checks every non-optional registered check is
\* selected, whatever skip_optional and include_optional are
C14_RequiredAlwaysSelected ==
    (SelectionDone /\ ~Truthy(config.specific_checks)) =>
        \A c \in Range(registry) : ~optional[c] => c \in Selected

C14_Witness ==
    /\ SelectionDone
    /\ config.specific_checks = None
    /\ config.include_optional = ListOf({2})
    /\ config.skip_optional
    /\ ~optional[1] /\ optional[2]
    /\ checks_to_run = <<1>>

\* register calls made so far under the name n
CallsFor(n) == {i \in 1..Len(register_log) : register_log[i].check.name = n}

LastCallFor(n) == CHOOSE i \in CallsFor(n) : \A j \in CallsFor(n) : j <= i

\* categories whose list holds the name n
CategoriesOf(n) ==
    {i \in 1..Len(categories) : n \in Range(categories[i].names)}

\* C15: get_check returns the check most recently registered under the
\* name, and nothing for a name never registered
C15_LastRegistrationWins ==
    \A n \in RegNames :
        IF CallsFor(n) = {} THEN GetCheck(n) = <<>>
        ELSE GetCheck(n) = <<register_log[LastCallFor(n)].check>>

\* two objects registered under one name, the second is the one returned
C15_Witness ==
    /\ Len(register_log) = 3
    /\ register_log[1].check = Check(1, 1)
    /\ register_log[3].check = Check(2, 1)
    /\ GetCheck(1) = <<Check(2, 1)>>
    /\ GetCheck(2) = <<>>

\* C16: no category list holds the same name twice
C16_NoDuplicateInCategory ==
    \A i \in 1..Len(categories) :
        \A n \in Range(categories[i].names) :
            Count(categories[i].names, n) <= 1

\* C17 as stated: every registered name is in the list of exactly one
\* category
C17_ExactlyOneCategory ==
    \A n \in Range(registry) : Cardinality(CategoriesOf(n)) = 1

\* C17 amended: every registered name is in the list of at least one
\* category, and in the list of each category it was registered under
C17_InEveryRegisteredCategory ==
    \A n \in Range(registry) :
        /\ CategoriesOf(n) # {}
        /\ \A i \in CallsFor(n) :
            n \in Range(CategoryNames(register_log[i].category))

\* one name registered under two categories
C17_Witness ==
    /\ Len(register_log) = 2
    /\ register_log[1] = [check |-> Check(1, 1), category |-> "general"]
    /\ register_log[2] = [check |-> Check(1, 1), category |-> "tools"]
    /\ Cardinality(CategoriesOf(1)) = 2

\* C18: no stored result has status Pending or Running, whatever a check's
\* run returns
C18_NoTransientStored ==
    \A i \in 1..Len(GetResults) :
        GetResults[i].result.status \in {PASSED, FAILED, WARNING, SKIPPED}

\* the calls of the run's life cycle, diagnostics left out
IsLifecycle(e) == e.ev \notin {"show_error", "show_warning"}

Lifecycle == SelectSeq(events, IsLifecycle)

\* start_check then complete_check of the same name, once per execution
RECURSIVE StartCompletePairs(_)
StartCompletePairs(done) ==
    IF done = <<>> THEN <<>>
    ELSE <<StartCheck(Head(done).name),
           CompleteCheck(Head(done).name, Head(done).result)>>
         \o StartCompletePairs(Tail(done))

\* C19: in a non-empty run the reporter receives start_checks(total) once,
\* then for each executed check its start_check immediately followed by its
\* complete_check before any other start_check, then finish_checks once; at
\* most one check is started and not yet completed
C19_SequentialLifecycle ==
    (reporter /\ ordered_checks # <<>>) =>
        /\ Lifecycle =
              <<StartChecks(Len(ordered_checks))>>
              \o StartCompletePairs(completed)
              \o (IF Finished THEN <<FinishChecks>>
                  ELSE <<StartCheck(ordered_checks[idx])>>)
        /\ Len(invoked) - Len(completed) = (IF Finished THEN 0 ELSE 1)

\* two different checks executed one after the other, the run finished
C19_Witness ==
    /\ Finished /\ reporter
    /\ Len(completed) = 2
    /\ completed[1].name # completed[2].name
    /\ Len(Lifecycle) = 6
    /\ Lifecycle[2].ev = "start_check" /\ Lifecycle[3].ev = "complete_check"
    /\ Lifecycle[4].ev = "start_check" /\ Lifecycle[5].ev = "complete_check"

\* what the runner has stored after the first n completed executions
RECURSIVE StoredUpTo(_)
StoredUpTo(n) ==
    IF n = 0 THEN <<>>
    ELSE DictSet(StoredUpTo(n - 1), completed[n].name, completed[n].result)

\* C20: on a fresh runner the keys of get_results() are at every point the
\* checks whose execution has completed so far, and its value is what the
\* runner stored, whatever a caller did to a mapping returned earlier
C20_GetResultsIsSnapshot ==
    /\ DictKeys(GetResults) = {completed[i].name : i \in 1..Len(completed)}
    /\ GetResults = StoredUpTo(Len(completed))

\* mid-run, one check completed, the caller took the results and wrote its
\* own entry over that check's and one more beside it
C20_Witness ==
    /\ pc = "awaiting"
    /\ Len(completed) = 1
    /\ snapshot.taken
    /\ DictKeys(snapshot.items) = {completed[1].name, 0}
    /\ DictGet(snapshot.items, completed[1].name) = CallerResult
    /\ DictGet(GetResults, completed[1].name) = completed[1].result
    /\ DictKeys(GetResults) = {completed[1].name}

IsPrefix(s, t) == Len(s) <= Len(t) /\ s = SubSeq(t, 1, Len(s))

\* C21: a run without a reporter executes the same checks in the same order,
\* stores the same results and returns the same boolean as the run with a
\* reporter of the same registry, configuration and check outcomes, and it
\* makes no reporter call
C21_ObserverMakesNoDifference ==
    shadow.taken =>
        /\ ~reporter /\ events = <<>> /\ observed = <<>>
        /\ pc # "idle" => ordered_checks = shadow.ordered
        /\ IsPrefix(invoked, shadow.invoked)
        /\ pc = "awaiting" => Len(completed) < Len(shadow.outcomes)
        /\ Finished =>
            /\ invoked = shadow.invoked
            /\ GetResults = shadow.results
            /\ returned = shadow.returned
            /\ Len(completed) = Len(shadow.outcomes)

\* both runs went through the resolver's fallback, whose diagnostic is the
\* reporter call of _get_execution_order, and ended in failure
C21_Witness ==
    /\ shadow.taken /\ Finished
    /\ fallbacks >= 1
    /\ Len(shadow.invoked) >= 2
    /\ invoked = shadow.invoked
    /\ shadow.returned = <<FALSE>>

\* the names of the executions that ended, in order
ExecutedNames == [i \in 1..Len(completed) |-> completed[i].name]

\* s without the repetitions of an element after its first occurrence
RECURSIVE FirstOccurrences(_)
FirstOccurrences(s) ==
    IF s = <<>> THEN <<>>
    ELSE LET front == FirstOccurrences(SubSeq(s, 1, Len(s) - 1))
             x == s[Len(s)]
         IN  IF x \in Range(front) THEN front ELSE Append(front, x)

\* C22: the keys of the results iterate in the order in which the checks were
\* executed (a check executed again keeps the place of its first execution)
C22_ResultsInExecutionOrder ==
    DictKeyList(GetResults) = FirstOccurrences(ExecutedNames)

\* the second registered check was executed first, and comes first in the
\* results
C22_Witness ==
    /\ Finished
    /\ registry = <<1, 2>>
    /\ ExecutedNames = <<2, 1>>
    /\ DictKeyList(GetResults) = <<2, 1>>

Exited == pc = "exited"

\* C23: the check command exits with code 0 when run_all_checks returned
\* true and with a non-zero code when it returned false
C23_ExitCodeFollowsSuccess ==
    /\ exit_code # <<>> <=> Exited
    /\ Exited =>
        /\ returned = <<TRUE>> => exit_code = <<0>>
        /\ returned = <<FALSE>> => exit_code[1] # 0

\* a run in which a required check failed and the next one passed
C23_Witness ==
    /\ Exited
    /\ Len(completed) = 2
    /\ completed[1].result.status = FAILED /\ ~optional[completed[1].name]
    /\ completed[2].result.status = PASSED
    /\ returned = <<FALSE>>
    /\ exit_code = <<1>>

\* C24 as stated, its last part: every run that reaches Finished has
\* delivered finish_checks exactly once
C24_FinishedOnceInEveryRun ==
    (Finished /\ reporter) => Count(events, FinishChecks) = 1

\* finish_checks was delivered once, as the last call, right after the last
\* complete_check
FinishedOnceAtEnd ==
    /\ Count(events, FinishChecks) = 1
    /\ events[Len(events)] = FinishChecks
    /\ events[Len(events) - 1].ev = "complete_check"
    /\ events[Len(events) - 1].name = completed[Len(completed)].name

\* C24 amended: the resolver's loop ends with `remaining` empty whatever the
\* dependency graph, the run reaches Finished, and a run that selected at
\* least one check delivers finish_checks exactly once, after the last
\* complete_check, on exhaustion and on early stop alike; a run that selects
\* nothing finishes without it
C24_RunTerminates ==
    /\ (pc = "ordering") ~> (pc = "awaiting" /\ left_to_order = <<>>)
    /\ <>Finished
    /\ [](~Finished => Count(events, FinishChecks) = 0)
    /\ []((Finished /\ reporter /\ checks_to_run # <<>>) => FinishedOnceAtEnd)
    /\ []((Finished /\ checks_to_run = <<>>) =>
            Count(events, FinishChecks) = 0)

\* a cyclic selection, ordered by two passes through the fallback, stopped
\* after the first check failed
C24_Witness ==
    /\ Finished /\ reporter
    /\ HasCycle
    /\ fallbacks = 2
    /\ left_to_order = <<>>
    /\ Len(completed) = 1 /\ Len(ordered_checks) = 3
    /\ FinishedOnceAtEnd

\* the executions of the check named c
ExecutionsOf(c) == {i \in 1..Len(completed) : completed[i].name = c}

FailedOnce(d) ==
    \E j \in ExecutionsOf(d) : completed[j].result.status = FAILED

\* every execution of c started after an execution of d had completed
RunsAfter(c, d) ==
    \A i \in ExecutionsOf(c) : \E j \in ExecutionsOf(d) : j < i

\* C25 as stated: with continue_on_failure a check whose selected dependency
\* failed is still executed, and executed after that dependency completed
C25_FailedDepStillPrecedes ==
    (Finished /\ config.continue_on_failure) =>
        \A c \in Selected : \A d \in SelectedDeps(c) :
            FailedOnce(d) => (ExecutionsOf(c) # {} /\ RunsAfter(c, d))

\* C25 amended: with continue_on_failure every selected check is executed
\* whatever its dependencies ended in, and when the selected dependency
\* relation is acyclic and names selected checks only, it is executed after
\* each of its dependencies completed
C25_FailureIsNotPropagated ==
    (Finished /\ config.continue_on_failure) =>
        /\ \A c \in Selected : ExecutionsOf(c) # {}
        /\ (~HasCycle /\ AllDepsSelected) =>
            \A c \in Selected : \A d \in SelectedDeps(c) : RunsAfter(c, d)

\* the second check depends on the first, the first raised, the second was
\* executed after it
C25_Witness ==
    /\ Finished /\ config.continue_on_failure
    /\ dependencies[2] = {1} /\ dependencies[1] = {}
    /\ Len(completed) = 2
    /\ completed[1].name = 1 /\ completed[1].raised
    /\ completed[2].name = 2 /\ completed[2].result.status = PASSED

\* C26: when complete_check(name, result) is delivered, get_results()
\* already maps name to that result, on the return path and on the except
\* path
C26_StoredBeforeNotified ==
    /\ Len(observed) = (IF reporter THEN Len(completed) ELSE 0)
    /\ \A i \in 1..Len(observed) :
        /\ observed[i].name = completed[i].name
        /\ observed[i].result = completed[i].result
        /\ observed[i].name \in DictKeys(observed[i].stored)
        /\ DictGet(observed[i].stored, observed[i].name) = observed[i].result

\* two deliveries, the first for a check that raised, the second for one
\* that returned
C26_Witness ==
    /\ reporter
    /\ Len(observed) = 2
    /\ completed[1].raised /\ ~completed[2].raised
    /\ observed[1].name # observed[2].name
    /\ DictKeys(observed[1].stored) = {observed[1].name}
    /\ DictKeys(observed[2].stored) = {1, 2}

\* what the pass being taken appends to `ordered`
PassAppended ==
    SubSeq(ordered_checks', Len(ordered_checks) + 1, Len(ordered_checks'))

\* position of the check c in the input list
InputPosition(c) == CHOOSE i \in 1..Len(checks_to_run) : checks_to_run[i] = c

InInputOrder(seg) ==
    \A i, j \in 1..Len(seg) :
        i < j => InputPosition(seg[i]) < InputPosition(seg[j])

\* no occurrence of d stands before an occurrence of c
NeverBefore(d, c, out) ==
    \A i, j \in 1..Len(out) : (out[i] = c /\ out[j] = d) => i < j

\* C27: for an acyclic input every pass appends its checks in the relative
\* order they have in the input, and a check without dependencies is never
\* placed after a check that transitively depends on it
C27_PassKeepsInputOrder ==
    /\ [][(pc = "ordering" /\ ~HasCycle) => InInputOrder(PassAppended)]_vars
    /\ [](\A c, d \in Selected :
            (dependencies[c] = {} /\ c \in TransitiveDeps(d)) =>
                NeverBefore(d, c, ordered_checks))

\* the first check depends on the third: the second and the third are ready
\* in the first pass and keep their input order, the first follows
C27_Witness ==
    /\ Resolved
    /\ checks_to_run = <<1, 2, 3>>
    /\ dependencies[1] = {3} /\ dependencies[2] = {} /\ dependencies[3] = {}
    /\ ordered_checks = <<2, 3, 1>>
    /\ fallbacks = 0

\* the configuration's list names no registered check
NamesNoneRegistered(l) == Truthy(l) /\ l.names \cap Range(registry) = {}

\* C28: a name that is not registered selects nothing: with a specific_checks
\* of unregistered names only, no check is selected or executed and the run
\* returns true; an include_optional of unregistered names only selects no
\* optional check
C28_UnregisteredNamesSelectNothing ==
    pc # "idle" =>
        /\ Selected \subseteq Range(registry)
        /\ NamesNoneRegistered(config.specific_checks) =>
            /\ Finished
            /\ checks_to_run = <<>>
            /\ invoked = <<>> /\ completed = <<>> /\ GetResults = <<>>
            /\ returned = <<TRUE>>
        /\ (~Truthy(config.specific_checks)
            /\ NamesNoneRegistered(config.include_optional)) =>
                \A c \in Selected : ~optional[c]

\* two required checks, specific_checks names an unregistered check only
C28_Witness ==
    /\ Finished
    /\ config.specific_checks = ListOf({0})
    /\ ~optional[1] /\ ~optional[2]
    /\ checks_to_run = <<>>
    /\ invoked = <<>>
    /\ returned = <<TRUE>>

\* C29: no step of a run changes the registry (its checks and its category
\* lists), a check's dependency list or optional flag, the configuration or
\* the reporter attached
C29_RunLeavesRegistryAndConfig ==
    [][UNCHANGED <<registry, check_of, categories, dependencies, optional,
                   config, reporter>>]_vars

\* a finished run of two checks that stored two results, the registry as
\* _load_checks built it
C29_Witness ==
    /\ Finished
    /\ DictKeys(GetResults) = {1, 2}
    /\ dependencies[2] = {1}
    /\ registry = <<1, 2>>
    /\ check_of = LoadChecks.check_of
    /\ categories = LoadChecks.categories

\* C30: the result built for a check that raised carries the stack trace as
\* details if and only if the configuration is verbose
C30_DetailsIffVerbose ==
    \A i \in 1..Len(completed) :
        completed[i].raised =>
            /\ config.verbose => completed[i].result.details = Traceback
            /\ ~config.verbose => completed[i].result.details = NoDetails

\* a verbose run in which a check raised
C30_Witness ==
    /\ config.verbose
    /\ Len(completed) >= 1
    /\ completed[1].raised
    /\ completed[1].result.details = Traceback
    /\ DictGet(GetResults, completed[1].name).details = Traceback

\* the registry the first n register calls build
RECURSIVE Replayed(_)
Replayed(n) ==
    IF n = 0 THEN EmptyRegistry
    ELSE RegisterIn(Replayed(n - 1), register_log[n].check,
                    register_log[n].category)

\* C31: the registry's name-to-check mapping, hence what get_check,
\* get_checks_in_category and a later get_all_checks return, is what the
\* register calls made it, whatever a caller did to a mapping returned by
\* get_all_checks; and the set of registered names never shrinks
C31_GetAllChecksIsCopy ==
    /\ [](/\ registry = Replayed(Len(register_log)).registry
          /\ check_of = Replayed(Len(register_log)).check_of
          /\ categories = Replayed(Len(register_log)).categories
          /\ \A n \in RegNames :
                CallsFor(n) # {} =>
                    GetCheck(n) = <<register_log[LastCallFor(n)].check>>)
    /\ [][/\ Range(registry) \subseteq Range(registry')
          /\ DOMAIN check_of \subseteq DOMAIN check_of']_vars

\* two names registered; the caller holds a mapping from which it deleted
\* the first name and in which it replaced the second
C31_Witness ==
    /\ Range(registry) = {1, 2}
    /\ snapshot.taken
    /\ snapshot.items.registry = <<2>>
    /\ snapshot.items.check_of[2] = CallerCheck(2)
    /\ GetCheck(1) # <<>>
    /\ GetCheck(2) # <<CallerCheck(2)>>

\* C32: after a run finishes, the keys of get_results() are exactly the
\* checks executed in that run, also in a second run on the same runner
C32_ResultsAreOfThisRun ==
    Finished => DictKeys(GetResults) = Range(ExecutedNames)

\* C33: CheckConfig.should_run_check and HealthCheckRunner._should_run_check
\* return the same boolean for every configuration, check name and optional
\* flag, so the runner's selection is the one the configuration's method
\* gives
C33_SelectionPoliciesAgree ==
    /\ \A name \in DepNames, is_optional \in BOOLEAN :
        ConfigShouldRunCheck(config, name, is_optional)
            = ShouldRunCheck(config, name, is_optional)
    /\ SelectionDone =>
        checks_to_run =
            FilterSeq(registry,
                      {c \in Range(registry) :
                          ConfigShouldRunCheck(config, c, optional[c])})

\* an empty specific_checks, two optional checks of which include_optional
\* names one, and a required check
C33_Witness ==
    /\ SelectionDone
    /\ config.specific_checks = ListOf({})
    /\ config.include_optional = ListOf({2})
    /\ ~config.skip_optional
    /\ optional[1] /\ optional[2] /\ ~optional[3]
    /\ ~ConfigShouldRunCheck(config, 1, optional[1])
    /\ ConfigShouldRunCheck(config, 2, optional[2])
    /\ ConfigShouldRunCheck(config, 3, optional[3])
    /\ checks_to_run = <<2, 3>>

\* the totals the reporter was given in start_checks, in order
StartTotals ==
    LET starts == SelectSeq(events, LAMBDA e : e.ev = "start_checks")
    IN  [i \in 1..Len(starts) |-> starts[i].n]

\* the run went through its whole list: it was not halted early
RanToTheEnd == Finished /\ Len(completed) = Len(ordered_checks)

\* C34: the total given in start_checks is the number of distinct selected
\* checks, and in a run that is not halted early it is the number of
\* complete_check calls delivered, cyclic dependency graphs included
C34_TotalIsSelectedCount ==
    (reporter /\ checks_to_run # <<>>) =>
        /\ StartTotals = <<Cardinality(Selected)>>
        /\ RanToTheEnd =>
            StartTotals = <<Count([i \in 1..Len(events) |-> events[i].ev],
                                  "complete_check")>>

\* the categories of the register calls, in order
RegisteredCategories ==
    [i \in 1..Len(register_log) |-> register_log[i].category]

\* C35: every name in a category list is a key of the name-to-check mapping,
\* so get_checks_in_category never fails and returns the checks now stored
\* under the listed names; it returns the empty list for a category never
\* registered; get_categories lists the categories in first-registration
\* order
C35_CategoryReadsAreTotal ==
    /\ \A i \in 1..Len(categories) :
        Range(categories[i].names) \subseteq DOMAIN check_of
    /\ \A category \in Categories \cup {"system"} :
        LET got == GetChecksInCategory(category)
        IN  /\ got.raised = ""
            /\ category \notin Range(RegisteredCategories) =>
                    got.checks = <<>>
            /\ category \in Range(RegisteredCategories) =>
                /\ Len(got.checks) >= 1
                /\ \A j \in 1..Len(got.checks) :
                    <<got.checks[j]>> = GetCheck(CategoryNames(category)[j])
    /\ GetCategories = FirstOccurrences(RegisteredCategories)

\* "tools" registered first, then "general", then "tools" again
C35_Witness ==
    /\ RegisteredCategories = <<"tools", "general", "tools">>
    /\ GetCategories = <<"tools", "general">>
    /\ Len(GetChecksInCategory("tools").checks) = 2
    /\ Len(GetChecksInCategory("general").checks) = 1
    /\ GetChecksInCategory("system") = [raised |-> "", checks |-> <<>>]

====
